---- MODULE Spec2Model ----
(***************************************************************************)
(* Model of src/invoice_generator.py: the text wrapping helpers, the       *)
(* layout pass of generate_invoice_pdf and the intake of generate_single   *)
(* and generate_batch.                                                     *)
(*                                                                         *)
(* Lengths are integers in units of 1/127000 pt, so that reportlab's       *)
(* mm = 72/25.4 pt and every glyph width (per-mille of the font size) are  *)
(* exact: 1 pt = 127000 units, 1 mm = 360000 units.                        *)
(* A text is a sequence of glyph names; a glyph's width comes from the     *)
(* font table GlyphWidth (the text measurer is a collaborator of the       *)
(* program, pdfmetrics.stringWidth).                                       *)
(***************************************************************************)
EXTENDS Integers, Sequences, FiniteSets, TLC

VARIABLES
    \* the helpers applied to one text
    wpc, wtext, wwidth, wlines, wdrawn,
    \* one call of generate_invoice_pdf
    pc,                \* position in the function
    data,              \* the invoice record (read-only)
    logo,              \* static/logo.png exists and can be drawn (it is
                       \* absent in the renders of Spec, either way in the
                       \* requests of SpecRequests)
    canvas,            \* the canvas calls made so far, in order
    pages,             \* number of showPage calls made so far
    row_y,             \* the vertical cursor
    i,                 \* index of the next item / bucket / note line
    subtotal_by_rate,  \* rate -> accumulated subtotal
    rate_order,        \* sorted(subtotal_by_rate.keys(), reverse=True)
    total_sub, total_tax,
    note_lines,        \* wrap_lines(note_text, ...)
    \* one request to generate_single or generate_batch
    bpc,               \* position in the view function
    request,           \* the form or the CSV file of the request (read-only)
    row_i,             \* index of the next CSV row
    zip,               \* the entries written to the archive so far
    now,               \* the clock, in seconds
    response           \* what the view returns

wvars == <<wpc, wtext, wwidth, wlines, wdrawn>>

rvars == <<pc, data, logo, canvas, pages, row_y, i, subtotal_by_rate,
           rate_order, total_sub, total_tax, note_lines>>

bvars == <<bpc, request, row_i, zip, now, response>>

vars == <<wvars, rvars, bvars>>

\* ---------------------------------------------------------------- units
pt == 127000
mm == 360000

\* ---------------------------------------------------------------- bounds
MaxLen == 4
MaxItems == 3
MaxFormRows == 1
MaxRows == 2
MaxClock == 1

\* ------------------------------------------------------- text measurer
\* Width of a glyph in 1/1000 of the font size.  "wide" stands for a glyph
\* that is wider than every column of the layout.
GlyphWidth(ch) ==
    CASE ch = "a"    -> 556
      [] ch = "kana" -> 1000
      [] ch = "wide" -> 25000
      [] ch \in {"0","1","2","3","4","5","6","7","8","9","yen"} -> 556
      [] ch \in {",", "."} -> 278
      [] ch = "-"    -> 333
      [] OTHER       -> 556

RECURSIVE SumWidth(_, _)
SumWidth(s, k) ==
    IF k > Len(s) THEN 0 ELSE GlyphWidth(s[k]) + SumWidth(s, k + 1)

\* pdfmetrics.stringWidth(text, font_name, font_size)
stringWidth(s, font_size) == SumWidth(s, 1) * font_size * 127

\* ------------------------------------------------------------ wrap_lines
\* One iteration of the loop of wrap_lines: from the accumulator cur and the
\* glyph ch, the lines appended to the result (emit) and the new accumulator.
WrapStepMeasureCur(cur, ch, font_size, max_width) ==
    IF stringWidth(cur, font_size) <= max_width
    THEN [emit |-> <<>>, cur |-> Append(cur, ch)]
    ELSE [emit |-> <<cur>>, cur |-> <<ch>>]

WrapStepDropChar(cur, ch, font_size, max_width) ==
    IF stringWidth(Append(cur, ch), font_size) <= max_width
    THEN [emit |-> <<>>, cur |-> Append(cur, ch)]
    ELSE [emit |-> <<cur>>, cur |-> <<>>]

WrapStep(cur, ch, font_size, max_width) ==
    IF stringWidth(Append(cur, ch), font_size) <= max_width
    THEN [emit |-> <<>>, cur |-> Append(cur, ch)]
    ELSE [emit |-> <<cur>>, cur |-> <<ch>>]

\* The lines appended from glyph k on, the accumulator being cur; after the
\* last glyph the accumulator is appended if it is not empty.
RECURSIVE WrapLoop(_, _, _, _, _)
WrapLoop(s, k, cur, font_size, max_width) ==
    IF k > Len(s) THEN (IF cur # <<>> THEN <<cur>> ELSE <<>>)
    ELSE LET st == WrapStep(cur, s[k], font_size, max_width)
         IN  st.emit \o WrapLoop(s, k + 1, st.cur, font_size, max_width)

\* return lines or [""]
wrap_lines(text, font_size, max_width) ==
    LET lines == WrapLoop(text, 1, <<>>, font_size, max_width)
    IN  IF lines = <<>> THEN << <<>> >> ELSE lines

wrap_lines_right(text, font_size, max_width) ==
    wrap_lines(text, font_size, max_width)

\* ---------------------------------------------------------- draw_wrapped
\* One iteration of the loop of draw_wrapped: the drawString calls made
\* (drawn), the new y and the new accumulator.
DrawStep(line, y, ch, font_size, max_width, line_height) ==
    IF stringWidth(Append(line, ch), font_size) <= max_width
    THEN [drawn |-> <<>>, y |-> y, line |-> Append(line, ch)]
    ELSE [drawn |-> <<[y |-> y, txt |-> line]>>,
          y     |-> y - line_height,
          line  |-> <<ch>>]

\* The drawString calls from glyph k on and the y returned.
RECURSIVE DrawLoop(_, _, _, _, _, _, _)
DrawLoop(s, k, line, y, font_size, max_width, line_height) ==
    IF k > Len(s)
    THEN IF line # <<>>
         THEN [drawn |-> <<[y |-> y, txt |-> line]>>, y |-> y - line_height]
         ELSE [drawn |-> <<>>, y |-> y]
    ELSE LET st   == DrawStep(line, y, s[k], font_size, max_width, line_height)
             rest == DrawLoop(s, k + 1, st.line, st.y, font_size, max_width,
                              line_height)
         IN  [drawn |-> st.drawn \o rest.drawn, y |-> rest.y]

\* Returns the drawString calls and the next y.
draw_wrapped(text, y, font_size, max_width, line_height) ==
    DrawLoop(text, 1, <<>>, y, font_size, max_width, line_height)

\* ------------------------------------------------------------- geometry
width    == 210 * mm
height   == 297 * mm
margin_x == 18 * mm
margin_y == 18 * mm
text_font_size == 10
line_h   == 14 * pt

col_x == <<margin_x, margin_x + 90 * mm, margin_x + 120 * mm,
           margin_x + 145 * mm, width - margin_x>>
pad_l == 2 * mm
pad_r == 2 * mm
w_desc == (col_x[2] - col_x[1]) - (pad_l + pad_r)
w_qty  == (col_x[3] - col_x[2]) - (pad_l + pad_r)
w_unit == (col_x[4] - col_x[3]) - (pad_l + pad_r)
w_sub  == (col_x[5] - col_x[4]) - (pad_l + pad_r)

y_top       == height - margin_y - 12 * mm
col_split_x == margin_x + 90 * mm
meta_x      == col_split_x + 6 * mm
meta_max_w  == (width - margin_x) - meta_x
one_char_w  == stringWidth(<<"kana">>, text_font_size)
buyer_max_w == (col_split_x - margin_x) - one_char_w
seller_max_w == IF 40 * mm >= buyer_max_w THEN 40 * mm ELSE buyer_max_w
note_max_w  == width - 2 * margin_x

\* The thresholds of the two page-break tests and the cursor after a break.
ItemThreshold == 40 * mm
ItemPageTop   == height - margin_y - 40 * mm
NoteThreshold == 24 * mm
NotePageTop   == height - margin_y

Min(a, b) == IF a <= b THEN a ELSE b
Max(a, b) == IF a >= b THEN a ELSE b

\* ------------------------------------------------------ number formatting
\* float(s) of the numeric fields: the texts float() accepts and their
\* values; float() raises ValueError on every other text.  A quantity or a
\* price is kept as its value, a rate as rate * 100.
NumberTexts == {"0", "1", "2", "3", "-1", "50", "100", "200", "500", "1000"}
IsNumber(s) == s \in NumberTexts
Float(s) ==
    CASE s = "0"    -> 0
      [] s = "1"    -> 1
      [] s = "2"    -> 2
      [] s = "3"    -> 3
      [] s = "-1"   -> -1
      [] s = "50"   -> 50
      [] s = "100"  -> 100
      [] s = "200"  -> 200
      [] s = "500"  -> 500
      [] s = "1000" -> 1000

RateTexts == {"0", "0.08", "0.1", "0.10"}
IsRate(s) == s \in RateTexts
FloatRate(s) ==
    CASE s = "0"    -> 0
      [] s = "0.08" -> 8
      [] s = "0.1"  -> 10
      [] s = "0.10" -> 10

Digit(d) == <<"0","1","2","3","4","5","6","7","8","9">>[d + 1]

\* The decimal digits of n >= 0 grouped by thousands: f"{n:,}".
RECURSIVE Grouped(_)
Grouped(n) ==
    IF n < 1000
    THEN IF n < 10 THEN <<Digit(n)>>
         ELSE IF n < 100 THEN <<Digit(n \div 10), Digit(n % 10)>>
         ELSE <<Digit(n \div 100), Digit((n \div 10) % 10), Digit(n % 10)>>
    ELSE Grouped(n \div 1000) \o
         <<",", Digit((n \div 100) % 10), Digit((n \div 10) % 10), Digit(n % 10)>>

RECURSIVE Plain(_)
Plain(n) == IF n < 10 THEN <<Digit(n)>> ELSE Append(Plain(n \div 10), Digit(n % 10))

Abs(n) == IF n < 0 THEN -n ELSE n
Sign(n) == IF n < 0 THEN <<"-">> ELSE <<>>

\* str(v) of a float with an integral value: "3.0".
StrFloat(v) == Sign(v) \o Plain(Abs(v)) \o <<".", "0">>

\* Round half to even of c / 100, c >= 0: the rounding of f"{v:,.0f}".
RoundHundredths(c) ==
    LET q == c \div 100
        r == c % 100
    IN  IF r > 50 \/ (r = 50 /\ q % 2 = 1) THEN q + 1 ELSE q

\* money(v) of generate_invoice_pdf; c is the amount in hundredths.
money(c, currency) ==
    IF currency = "JPY"
    THEN <<"yen">> \o Sign(c) \o Grouped(RoundHundredths(Abs(c)))
    ELSE Sign(c) \o Grouped(Abs(c) \div 100) \o
         <<".", Digit((Abs(c) \div 10) % 10), Digit(Abs(c) % 10)>>

\* f"{float(tax_rate or 0)*100:.0f}%" and f"...{int(rate*100)}%...", the rate
\* given as rate * 100.
PercentText(r) == Sign(r) \o Plain(Abs(r)) \o <<"%">>

\* ------------------------------------------------------------ the canvas
\* A canvas call: a text run (drawString / drawRightString), a rule (line),
\* an image (drawImage) or a page break (showPage).  page is the number of
\* the page the call goes to; idx is the index of the item a table cell
\* belongs to, of the bucket of a per-rate line, of the line of the note, and
\* 0 otherwise.  Horizontal positions are left out.
Text(kind, page, y, txt, idx) ==
    [op |-> "text", kind |-> kind, page |-> page, y |-> y, txt |-> txt,
     idx |-> idx]
Rule(page, y) ==
    [op |-> "line", kind |-> "rule", page |-> page, y |-> y, txt |-> <<>>,
     idx |-> 0]
Image(page, y) ==
    [op |-> "image", kind |-> "logo", page |-> page, y |-> y, txt |-> <<>>,
     idx |-> 0]
ShowPage(page) ==
    [op |-> "showPage", kind |-> "break", page |-> page, y |-> 0, txt |-> <<>>,
     idx |-> 0]

\* for ln in lines: draw ln at y; y -= step
DrawLines(kind, page, lines, y, step, idx) ==
    [k \in 1..Len(lines) |-> Text(kind, page, y - (k - 1) * step, lines[k], idx)]

\* for line in block: if line: y = draw_wrapped(...)   (seller / buyer block)
RECURSIVE DrawBlock(_, _, _, _)
DrawBlock(block, k, acc, max_width) ==
    IF k > Len(block) THEN acc
    ELSE IF block[k] = <<>> THEN DrawBlock(block, k + 1, acc, max_width)
    ELSE LET d == draw_wrapped(block[k], acc.y, text_font_size, max_width,
                               12 * pt)
         IN  DrawBlock(block, k + 1,
                 [drawn |-> acc.drawn \o
                            [j \in 1..Len(d.drawn) |->
                                Text("party", 1, d.drawn[j].y, d.drawn[j].txt, 0)],
                  y |-> d.y],
                 max_width)

\* for label, val in meta_fields: label, then the wrapped value
RECURSIVE DrawMeta(_, _, _)
DrawMeta(fields, k, acc) ==
    IF k > Len(fields) THEN acc
    ELSE LET lines == wrap_lines(fields[k][2], 10, meta_max_w)
         IN  DrawMeta(fields, k + 1,
                 [drawn |-> Append(acc.drawn,
                                   Text("meta", 1, acc.y, fields[k][1], 0))
                            \o DrawLines("meta", 1, lines, acc.y - 12 * pt,
                                         14 * pt, 0),
                  y |-> acc.y - 12 * pt - Len(lines) * (14 * pt)])


\* --------------------------------------------------- generate_invoice_pdf
\* float(data.get('tax_rate') or 0), as rate * 100
DefaultRate(d) == IF d.tax_rate = "" THEN 0 ELSE FloatRate(d.tax_rate)

\* The header phase (title, seller and meta columns, buyer block, table
\* header): its canvas calls and the cursor of the first item row.
HeaderLayout(d, lg) ==
    LET title   == <<Text("title", 1, height - margin_y, <<"INVOICE">>, 0)>>
        image   == IF lg THEN <<Image(1, height - margin_y - 24 * mm)>> ELSE <<>>
        logo_bottom_y == IF lg THEN height - margin_y - 24 * mm ELSE y_top
        heads   == <<Text("head", 1, y_top, <<"From">>, 0),
                     Text("head", 1, y_top, <<"Invoice No.">>, 0)>>
        left    == DrawBlock(<<d.seller_name, d.seller_address,
                               d.seller_phone, d.seller_email>>, 1,
                             [drawn |-> <<>>, y |-> y_top - 16 * pt],
                             seller_max_w)
        y_left  == left.y
        no_lines == wrap_lines(d.invoice_no, 10, meta_max_w)
        inv     == IF d.invoice_no # <<>>
                   THEN [drawn |-> DrawLines("meta", 1, no_lines,
                                             y_top - 16 * pt, 14 * pt, 0),
                         y |-> y_top - 16 * pt - Len(no_lines) * (14 * pt)
                               - 2 * pt]
                   ELSE [drawn |-> <<>>, y |-> y_top - 16 * pt]
        meta    == DrawMeta(<< <<<<"Date">>, d.date>>,
                               <<<<"Due Date">>, d.due_date>>,
                               <<<<"Currency">>, <<d.currency>>>>,
                               <<<<"Tax Rate">>, PercentText(DefaultRate(d))>> >>,
                            1, [drawn |-> <<>>, y |-> inv.y])
        y_right == meta.y
        y_bt0   == Min(Min(y_left, y_right), logo_bottom_y) - 10 * mm
        billto  == <<Text("head", 1, y_bt0, <<"Bill To">>, 0)>>
        buyer   == DrawBlock(<<d.buyer_name, d.buyer_address,
                               d.buyer_phone, d.buyer_email>>, 1,
                             [drawn |-> <<>>, y |-> y_bt0 - 16 * pt],
                             buyer_max_w)
        y_bt    == buyer.y
        table_top == Min(Min(y_bt, y_left), y_right) - 8 * mm
        header_y  == table_top - 16 * pt
        table   == <<Text("head", 1, table_top, <<"Items">>, 0),
                     Text("colhead", 1, header_y, <<"Description">>, 0),
                     Text("colhead", 1, header_y, <<"Qty">>, 0),
                     Text("colhead", 1, header_y, <<"Unit">>, 0),
                     Text("colhead", 1, header_y, <<"Subtotal">>, 0),
                     Rule(1, header_y - 4 * pt)>>
    IN  [calls |-> title \o image \o heads \o left.drawn \o inv.drawn \o
                   meta.drawn \o billto \o buyer.drawn \o table,
         row_y |-> header_y - 18 * pt]

\* Lines 116-285: everything before the item loop.  The tax-rate text of
\* the meta column is built first (line 156), and float() raises there when
\* the invoice's tax rate is not a number.
Header ==
    /\ pc = "start"
    /\ IF data.tax_rate = "" \/ IsRate(data.tax_rate)
       THEN LET h == HeaderLayout(data, logo)
            IN  /\ canvas' = h.calls
                /\ row_y' = h.row_y
                /\ pc' = "items"
       ELSE /\ canvas' = <<Text("title", 1, height - margin_y, <<"INVOICE">>, 0)>>
            /\ row_y' = row_y
            /\ pc' = "failed"
    /\ i' = 1
    /\ UNCHANGED <<data, logo, pages, subtotal_by_rate, rate_order, total_sub,
                   total_tax, note_lines, wvars, bvars>>

\* rate = default_rate if (taxv in (None, "")) else float(taxv); an absent
\* override is <<>>, an override r is <<r * 100>>.
EffectiveRateFalsy(taxv, default_rate) ==
    IF taxv = <<>> \/ taxv = <<0>> THEN default_rate ELSE taxv[1]

EffectiveRate(taxv, default_rate) ==
    IF taxv = <<>> THEN default_rate ELSE taxv[1]

\* subtotal_by_rate[rate] += sub on a defaultdict(float)
AddSubtotalOverwrite(sbr, rate, sub) ==
    IF rate \in DOMAIN sbr THEN [sbr EXCEPT ![rate] = sub]
    ELSE sbr @@ (rate :> sub)

AddSubtotal(sbr, rate, sub) ==
    IF rate \in DOMAIN sbr THEN [sbr EXCEPT ![rate] = @ + sub]
    ELSE sbr @@ (rate :> sub)

\* The four wrapped cells of an item row (lines 299-303).
RowCells(it, currency) ==
    [desc |-> wrap_lines(it.desc, 10, w_desc),
     qty  |-> wrap_lines_right(StrFloat(it.qty), 10, w_qty),
     unit |-> wrap_lines_right(money(it.unit * 100, currency), 10, w_unit),
     sub  |-> wrap_lines_right(money(it.qty * it.unit * 100, currency), 10,
                               w_sub)]

\* max_lines * line_h (lines 305-306)
RowHeight(cells) ==
    Max(Max(Len(cells.desc), Len(cells.qty)),
        Max(Len(cells.unit), Len(cells.sub))) * line_h

\* if row_y - row_height < 40 * mm  (line 309)
NeedsPageBreakIgnoringHeight(y, row_height) == y < ItemThreshold

NeedsPageBreak(y, row_height) == y - row_height < ItemThreshold

\* One iteration of the item loop (lines 287-337).
ItemRow ==
    /\ pc = "items"
    /\ i <= Len(data.items)
    /\ LET it    == data.items[i]
           sub   == it.qty * it.unit
           rate  == EffectiveRate(it.taxv, DefaultRate(data))
           cells == RowCells(it, data.currency)
           row_height == RowHeight(cells)
           brk   == NeedsPageBreak(row_y, row_height)
           pg    == IF brk THEN pages + 2 ELSE pages + 1
           y1    == IF brk THEN ItemPageTop ELSE row_y
       IN  /\ subtotal_by_rate' = AddSubtotal(subtotal_by_rate, rate, sub)
           /\ canvas' = canvas \o
                (IF brk
                 THEN <<ShowPage(pages + 1),
                        Text("head", pg, height - margin_y - 12 * mm,
                             <<"Items">>, 0)>>
                 ELSE <<>>) \o
                DrawLines("desc", pg, cells.desc, y1, line_h, i) \o
                DrawLines("qty",  pg, cells.qty,  y1, line_h, i) \o
                DrawLines("unit", pg, cells.unit, y1, line_h, i) \o
                DrawLines("sub",  pg, cells.sub,  y1, line_h, i)
           /\ pages' = IF brk THEN pages + 1 ELSE pages
           /\ row_y' = y1 - row_height
    /\ i' = i + 1
    /\ UNCHANGED <<pc, data, logo, rate_order, total_sub, total_tax,
                   note_lines, wvars, bvars>>

\* sorted(keys, reverse=True)
RECURSIVE SortedAscending(_)
SortedAscending(S) ==
    IF S = {} THEN <<>>
    ELSE LET m == CHOOSE x \in S : \A y \in S : x <= y
         IN  <<m>> \o SortedAscending(S \ {m})

RECURSIVE SortedDescending(_)
SortedDescending(S) ==
    IF S = {} THEN <<>>
    ELSE LET m == CHOOSE x \in S : \A y \in S : y <= x
         IN  <<m>> \o SortedDescending(S \ {m})

RateOrderAscending(keys) == SortedAscending(keys)

RateOrder(keys) == SortedDescending(keys)

\* Lines 339-348: after the item loop, the rule above the totals.
TotalsBegin ==
    /\ pc = "items"
    /\ i > Len(data.items)
    /\ canvas' = Append(canvas, Rule(pages + 1, row_y - 6 * pt))
    /\ row_y' = row_y - 6 * pt - 18 * pt
    /\ total_sub' = 0
    /\ total_tax' = 0
    /\ rate_order' = RateOrder(DOMAIN subtotal_by_rate)
    /\ i' = 1
    /\ pc' = "buckets"
    /\ UNCHANGED <<data, logo, pages, subtotal_by_rate, note_lines, wvars, bvars>>

\* One iteration of the loop over the rates (lines 348-358).  total_tax and
\* the tax of a bucket are in hundredths (subtotal * rate * 100).
Bucket ==
    /\ pc = "buckets"
    /\ i <= Len(rate_order)
    /\ LET rate == rate_order[i]
           sub  == subtotal_by_rate[rate]
           tax  == sub * rate
       IN  /\ total_sub' = total_sub + sub
           /\ total_tax' = total_tax + tax
           /\ canvas' = canvas \o
                <<Text("rate_sub_label", pages + 1, row_y,
                       <<"taxable">> \o PercentText(rate), i),
                  Text("rate_sub", pages + 1, row_y,
                       money(sub * 100, data.currency), i),
                  Text("rate_tax_label", pages + 1, row_y - 14 * pt,
                       <<"tax">> \o PercentText(rate), i),
                  Text("rate_tax", pages + 1, row_y - 14 * pt,
                       money(tax, data.currency), i)>>
           /\ row_y' = row_y - 14 * pt - 14 * pt
    /\ i' = i + 1
    /\ UNCHANGED <<pc, data, logo, pages, subtotal_by_rate, rate_order,
                   note_lines, wvars, bvars>>

\* Lines 360-374: the rule, the subtotal and total lines, the wrapped note.
TotalsEnd ==
    /\ pc = "buckets"
    /\ i > Len(rate_order)
    /\ canvas' = canvas \o
         <<Rule(pages + 1, row_y),
           Text("subtotal_label", pages + 1, row_y - 18 * pt, <<"Subtotal">>, 0),
           Text("subtotal", pages + 1, row_y - 18 * pt,
                money(total_sub * 100, data.currency), 0),
           Text("total_label", pages + 1, row_y - 18 * pt - 14 * pt,
                <<"Total">>, 0),
           Text("total", pages + 1, row_y - 18 * pt - 14 * pt,
                money(total_sub * 100 + total_tax, data.currency), 0)>>
    /\ row_y' = row_y - 18 * pt - 14 * pt - 22 * pt
    /\ note_lines' = wrap_lines(data.note, 9, note_max_w)
    /\ i' = 1
    /\ pc' = "note"
    /\ UNCHANGED <<data, logo, pages, subtotal_by_rate, rate_order, total_sub,
                   total_tax, wvars, bvars>>

\* if row_y < 24 * mm  (line 376)
NoteNeedsPageBreakAtItemThreshold(y) == y < ItemThreshold

NoteNeedsPageBreak(y) == y < NoteThreshold

\* One iteration of the note loop (lines 375-381).
NoteLine ==
    /\ pc = "note"
    /\ i <= Len(note_lines)
    /\ LET brk == NoteNeedsPageBreak(row_y)
           pg  == IF brk THEN pages + 2 ELSE pages + 1
           y1  == IF brk THEN NotePageTop ELSE row_y
       IN  /\ canvas' = canvas \o
                (IF brk THEN <<ShowPage(pages + 1)>> ELSE <<>>) \o
                <<Text("note", pg, y1, note_lines[i], i)>>
           /\ pages' = IF brk THEN pages + 1 ELSE pages
           /\ row_y' = y1 - 12 * pt
    /\ i' = i + 1
    /\ UNCHANGED <<pc, data, logo, subtotal_by_rate, rate_order, total_sub,
                   total_tax, note_lines, wvars, bvars>>

\* The closing showPage of lines 383-386: the canvas calls and the number of
\* pages shown after it.
ClosePageOmitted(cnv, pg) == [canvas |-> cnv, pages |-> pg]

ClosePage(cnv, pg) == [canvas |-> Append(cnv, ShowPage(pg + 1)), pages |-> pg + 1]

\* Lines 383-390: close the last page, save, return the bytes.
Finish ==
    /\ pc = "note"
    /\ i > Len(note_lines)
    /\ canvas' = ClosePage(canvas, pages).canvas
    /\ pages' = ClosePage(canvas, pages).pages
    /\ pc' = "done"
    /\ UNCHANGED <<data, logo, row_y, i, subtotal_by_rate, rate_order,
                   total_sub, total_tax, note_lines, wvars, bvars>>

\* ------------------------------------------------------- invoice records

Rep(ch, n) == [k \in 1..n |-> ch]

\* Items at each kind of rate (override of 10%, 8%, 0%, no override), with
\* rows of 1, 30, 14 and 1 lines: a description of n wide glyphs takes n + 1
\* lines, one glyph per line after the empty first line.  Two rows of 14
\* lines end the table of the first page just above the overflow threshold.
ItemSet ==
    { [desc |-> <<"a">>,         qty |-> 1, unit |-> 1000, taxv |-> <<10>>],
      [desc |-> Rep("wide", 29), qty |-> 1, unit |-> 500,  taxv |-> <<8>>],
      [desc |-> Rep("wide", 13), qty |-> 2, unit |-> 100,  taxv |-> <<0>>],
      [desc |-> <<"kana">>,      qty |-> 3, unit |-> 50,   taxv |-> <<>>] }

ItemLists == UNION {[1..n -> ItemSet] : n \in 0..MaxItems}

NoteSet == {<<>>, Rep("wide", 4)}

DataSet ==
    [title : {<<"INVOICE">>},
     seller_name : {<<"a">>}, seller_address : {<<>>},
     seller_email : {<<>>}, seller_phone : {<<>>},
     buyer_name : {<<>>, <<"kana">>}, buyer_address : {<<>>},
     buyer_email : {<<>>}, buyer_phone : {<<>>},
     invoice_no : {<<"1">>}, date : {<<>>}, due_date : {<<>>},
     currency : {"JPY"},
     tax_rate : {"", "0.1", "abc"},
     note : NoteSet,
     items : ItemLists]

InitRender ==
    /\ pc = "start"
    /\ data \in DataSet
    /\ logo = FALSE
    /\ canvas = <<>>
    /\ pages = 0
    /\ row_y = 0
    /\ i = 1
    /\ subtotal_by_rate = [r \in {} |-> 0]
    /\ rate_order = <<>>
    /\ total_sub = 0
    /\ total_tax = 0
    /\ note_lines = <<>>

IdleWrap ==
    /\ wpc = "idle"
    /\ wtext = <<>>
    /\ wwidth = 0
    /\ wlines = <<>>
    /\ wdrawn = <<>>

IdleRender ==
    /\ pc = "idle"
    /\ data = <<>>
    /\ canvas = <<>>
    /\ pages = 0
    /\ row_y = 0
    /\ i = 1
    /\ subtotal_by_rate = <<>>
    /\ rate_order = <<>>
    /\ total_sub = 0
    /\ total_tax = 0
    /\ note_lines = <<>>

IdleRequests ==
    /\ bpc = "idle"
    /\ request = <<>>
    /\ row_i = 1
    /\ zip = <<>>
    /\ now = 0
    /\ response = <<>>

Init == InitRender /\ IdleWrap /\ IdleRequests

Next ==
    \/ Header
    \/ ItemRow
    \/ TotalsBegin
    \/ Bucket
    \/ TotalsEnd
    \/ NoteLine
    \/ Finish

Spec == Init /\ [][Next]_vars

\* ------------------------------------------------------------------ C1
IsCell(e) == e.kind \in {"desc", "qty", "unit", "sub"}

RowHeightOf(k) == RowHeight(RowCells(data.items[k], data.currency))

RECURSIVE SumHeights(_, _)
SumHeights(a, b) == IF a > b THEN 0 ELSE RowHeightOf(a) + SumHeights(a + 1, b)

\* The cursor of the first row, and the items whose row would end below the
\* overflow threshold if the table went on down the first page.
FirstRowY == HeaderLayout(data, logo).row_y
Overflows(k) == FirstRowY - SumHeights(1, k) < ItemThreshold
FirstOverflow ==
    CHOOSE k \in 1..Len(data.items) :
        Overflows(k) /\ \A j \in 1..(k - 1) : ~Overflows(j)

\* The table exceeds the first page, and the rows from the first overflowing
\* item on fit between the top of a continuation page and the threshold.
FitsOnTwoPages ==
    /\ \E k \in 1..Len(data.items) : Overflows(k)
    /\ ItemPageTop - SumHeights(FirstOverflow, Len(data.items)) >= ItemThreshold

BreakPositions == {p \in 1..Len(canvas) : canvas[p].op = "showPage"}
AllCellPositions == {q \in 1..Len(canvas) : IsCell(canvas[q])}
CellPositions(k) == {q \in AllCellPositions : canvas[q].idx = k}

\* C1: when the item list exceeds the first page but fits on two pages, the
\* item loop emits exactly one page break, immediately before the first cell
\* of the first item whose row would fall below the overflow threshold; and
\* in every case all lines of the four cells of an item are on one page, with
\* no page break between two of them.
C1_OneBreakAtItemBoundary ==
    pc = "items" =>
        LET cells  == AllCellPositions
            breaks == BreakPositions
        IN  /\ \A k \in 1..Len(data.items) :
                  Cardinality({canvas[q].page : q \in CellPositions(k)}) <= 1
            /\ \A p \in breaks :
                  {canvas[q].idx : q \in {c \in cells : c < p}} \cap
                  {canvas[q].idx : q \in {c \in cells : c > p}} = {}
            /\ (i > Len(data.items) /\ FitsOnTwoPages) =>
                  LET first == FirstOverflow
                  IN  \E p \in breaks :
                          /\ breaks = {p}
                          /\ \A q \in cells :
                                /\ (canvas[q].idx < first) = (q < p)
                                /\ canvas[q].page =
                                     (IF canvas[q].idx < first THEN 1 ELSE 2)

C1_Witness ==
    /\ pc = "items"
    /\ i > Len(data.items)
    /\ FitsOnTwoPages
    /\ FirstOverflow > 1
    /\ RowHeightOf(FirstOverflow) > line_h
    /\ pages = 1

\* ------------------------------------------------------------------ C5
\* The rate of an item: its override when there is one, the invoice's
\* default rate otherwise.
RateOf(it) == IF Len(it.taxv) = 1 THEN it.taxv[1] ELSE DefaultRate(data)

RECURSIVE SumItems(_, _)
SumItems(k, R) ==
    IF k > Len(data.items) THEN 0
    ELSE (IF RateOf(data.items[k]) \in R
          THEN data.items[k].qty * data.items[k].unit ELSE 0)
         + SumItems(k + 1, R)

AllRates == {RateOf(data.items[k]) : k \in 1..Len(data.items)}

RECURSIVE SumTax(_)
SumTax(R) ==
    IF R = {} THEN 0
    ELSE LET r == CHOOSE x \in R : TRUE
         IN  subtotal_by_rate[r] * r + SumTax(R \ {r})

\* C5: after the aggregation pass total_sub is the sum of quantity * unit
\* price over the items, total_tax the sum over the buckets of subtotal *
\* rate (in hundredths), and each bucket holds the subtotals of the items
\* whose effective rate (override if present, 0 included, else the default
\* rate) is the bucket's rate.
C5_Totals ==
    pc \in {"note", "done"} =>
        /\ total_sub = SumItems(1, AllRates)
        /\ DOMAIN subtotal_by_rate = AllRates
        /\ \A r \in AllRates : subtotal_by_rate[r] = SumItems(1, {r})
        /\ total_tax = SumTax(AllRates)

C5_Witness ==
    /\ pc = "done"
    /\ DefaultRate(data) = 10
    /\ \E k \in 1..Len(data.items) : data.items[k].taxv = <<0>>
    /\ \E k \in 1..Len(data.items) : data.items[k].taxv = <<>>
    /\ \E k \in 1..Len(data.items) : data.items[k].taxv = <<10>>
    /\ total_tax > 0

\* ------------------------------------------------------------------ C6
RateLabels == SelectSeq(canvas, LAMBDA e : e.kind = "rate_sub_label")
RateLines  == SelectSeq(canvas, LAMBDA e :
                  e.kind \in {"rate_sub_label", "rate_sub",
                              "rate_tax_label", "rate_tax"})
LabelledRate(e) ==
    CHOOSE r \in AllRates : e.txt = <<"taxable">> \o PercentText(r)

\* C6: the totals phase emits one 'subtotal at rate' / 'tax at rate' pair
\* per distinct effective rate, in decreasing rate order whatever the order
\* of the items; items at 10% : 1000, 8% : 500, 0% : 200 give subtotal 1700
\* and tax 140 in the order 10%, 8%, 0%.
C6_BucketsDescending ==
    pc \in {"note", "done"} =>
        /\ Len(RateLabels) = Cardinality(AllRates)
        /\ Len(RateLines) = 4 * Len(RateLabels)
        /\ \A k \in 1..Len(RateLabels) :
              /\ \E r \in AllRates :
                    /\ RateLines[4 * k - 3].txt = <<"taxable">> \o PercentText(r)
                    /\ RateLines[4 * k - 2].txt =
                          money(SumItems(1, {r}) * 100, data.currency)
                    /\ RateLines[4 * k - 1].txt = <<"tax">> \o PercentText(r)
                    /\ RateLines[4 * k].txt =
                          money(SumItems(1, {r}) * r, data.currency)
              /\ RateLabels[k] = RateLines[4 * k - 3]
        /\ \A k, l \in 1..Len(RateLabels) :
              k < l => LabelledRate(RateLabels[k]) > LabelledRate(RateLabels[l])
        /\ (/\ AllRates = {10, 8, 0}
            /\ SumItems(1, {10}) = 1000
            /\ SumItems(1, {8}) = 500
            /\ SumItems(1, {0}) = 200) =>
               /\ total_sub = 1700
               /\ total_tax = 140 * 100
               /\ [k \in 1..3 |-> LabelledRate(RateLabels[k])] = <<10, 8, 0>>

C6_Witness ==
    /\ pc = "done"
    /\ Len(data.items) = 3
    /\ data.items[1].taxv = <<0>>
    /\ data.items[2].taxv = <<10>>
    /\ data.items[3].taxv = <<8>>
    /\ [k \in 1..3 |-> LabelledRate(RateLabels[k])] = <<10, 8, 0>>
    /\ total_sub = 1700

\* ------------------------------------------------------------------ C7
\* C7: a render that completes closes its last page once, as its last canvas
\* call, so the number of pages shown is one plus the number of automatic
\* page breaks and at least one; with zero items no item row and no per-rate
\* line is drawn, the total shown is 0, and one page at least is shown.
C7_LastPageClosed ==
    pc = "done" =>
        /\ canvas[Len(canvas)].op = "showPage"
        /\ canvas[Len(canvas) - 1].op # "showPage"
        /\ pages = Cardinality(BreakPositions)
        /\ pages = 1 + Cardinality(BreakPositions \ {Len(canvas)})
        /\ pages >= 1
        /\ \A q \in 1..Len(canvas) : canvas[q].page <= pages
        /\ data.items = <<>> =>
              /\ \A q \in 1..Len(canvas) : ~IsCell(canvas[q])
              /\ RateLines = <<>>
              /\ \E q \in 1..Len(canvas) :
                    /\ canvas[q].kind = "total"
                    /\ canvas[q].txt = money(0, data.currency)

C7_Witness ==
    /\ pc = "done"
    /\ data.items = <<>>
    /\ pages = 1
    /\ canvas[Len(canvas)].op = "showPage"


\* ----------------------------------------------------------------- C11
\* The positions of the note lines on the canvas, and of the total line that
\* ends the totals section.
NotePositions == {q \in 1..Len(canvas) : canvas[q].kind = "note"}
NotePos(k) == CHOOSE q \in NotePositions : canvas[q].idx = k
TotalPos == CHOOSE q \in 1..Len(canvas) : canvas[q].kind = "total"
NotesDrawn == IF pc = "note" THEN i - 1 ELSE Len(note_lines)

\* The cursor and the page before note line k is drawn: 22 pt below the
\* total line for the first one, 12 pt below the line before for the others.
CursorBeforeNote(k) ==
    IF k = 1 THEN canvas[TotalPos].y - 22 * pt
    ELSE canvas[NotePos(k - 1)].y - 12 * pt
PageBeforeNote(k) ==
    IF k = 1 THEN canvas[TotalPos].page ELSE canvas[NotePos(k - 1)].page

\* C11: in the note phase the wrapped note lines are drawn one canvas call
\* each, in order; a line whose cursor is below the note threshold is
\* preceded by a bare page break (no 'Items' header after it) and drawn at
\* the fixed top offset of the new page, every other line is drawn at the
\* cursor on the same page; so every note line is at or above the note
\* threshold, and each drawn line lowers the cursor by 12 pt.
C11_NotePagination ==
    pc \in {"note", "done"} =>
        /\ Cardinality(NotePositions) = NotesDrawn
        /\ \A k \in 1..NotesDrawn :
              LET q == NotePos(k)
              IN  /\ canvas[q].txt = note_lines[k]
                  /\ canvas[q].y >= NoteThreshold
                  /\ q > TotalPos
                  /\ k > 1 => q > NotePos(k - 1)
                  /\ IF CursorBeforeNote(k) < NoteThreshold
                     THEN /\ canvas[q - 1].op = "showPage"
                          /\ canvas[q].page = PageBeforeNote(k) + 1
                          /\ canvas[q].y = NotePageTop
                     ELSE /\ canvas[q - 1].op # "showPage"
                          /\ canvas[q].page = PageBeforeNote(k)
                          /\ canvas[q].y = CursorBeforeNote(k)
        /\ \A q \in 1..Len(canvas) :
              (q > TotalPos /\ canvas[q].op = "text") => canvas[q].kind = "note"
        /\ (pc = "note" /\ NotesDrawn >= 1) =>
              row_y = canvas[NotePos(NotesDrawn)].y - 12 * pt

\* A note of two lines whose first line goes to a new page, the second one
\* 12 pt below it.
C11_Witness ==
    /\ pc = "done"
    /\ Len(note_lines) = 2
    /\ CursorBeforeNote(1) < NoteThreshold
    /\ canvas[NotePos(1) - 1].op = "showPage"
    /\ canvas[NotePos(1)].y = NotePageTop
    /\ canvas[NotePos(2)].y = NotePageTop - 12 * pt
    /\ canvas[NotePos(2)].page = canvas[NotePos(1)].page

\* ----------------------------------------------------------------- C12
\* The text runs of the totals section: the per-rate lines, the subtotal
\* line and the total line.
IsTotalsRun(e) ==
    e.kind \in {"rate_sub_label", "rate_sub", "rate_tax_label", "rate_tax",
                "subtotal_label", "subtotal", "total_label", "total"}

\* C12: every text run of the item table and of the totals section is drawn
\* at or above the bottom margin of its page, whatever the number of rates
\* and the heights of the rows.
C12_TableAndTotalsAboveBottomMargin ==
    \A q \in 1..Len(canvas) :
        (IsCell(canvas[q]) \/ IsTotalsRun(canvas[q])) => canvas[q].y >= margin_y

\* ------------------------------------------- generate_single, generate_batch
\* float(q or 0), float(u or 0) with except ValueError: qv, uv = 0.0, 0.0
\* (lines 535-539).
FormNumbersEach(q, u) ==
    [qv |-> IF q = "" THEN 0 ELSE IF IsNumber(q) THEN Float(q) ELSE 0,
     uv |-> IF u = "" THEN 0 ELSE IF IsNumber(u) THEN Float(u) ELSE 0]

FormNumbers(q, u) ==
    IF (q = "" \/ IsNumber(q)) /\ (u = "" \/ IsNumber(u))
    THEN [qv |-> IF q = "" THEN 0 ELSE Float(q),
          uv |-> IF u = "" THEN 0 ELSE Float(u)]
    ELSE [qv |-> 0, uv |-> 0]

\* The item loop of generate_single (lines 531-540) from row k on.
RECURSIVE FormItems(_, _)
FormItems(rows, k) ==
    IF k > Len(rows) THEN <<>>
    ELSE IF rows[k].desc = <<>> THEN FormItems(rows, k + 1)
    ELSE LET n == FormNumbers(rows[k].qty, rows[k].unit)
         IN  <<[desc |-> rows[k].desc, qty |-> n.qv, unit |-> n.uv,
                taxv |-> <<>>]>> \o FormItems(rows, k + 1)

\* float(qty), float(unit) with except ValueError: qv, uv = 0.0, 0.0
\* (lines 594-598).
CsvNumbersEach(q, u) ==
    [qv |-> IF IsNumber(q) THEN Float(q) ELSE 0,
     uv |-> IF IsNumber(u) THEN Float(u) ELSE 0]

CsvNumbers(q, u) ==
    IF IsNumber(q) /\ IsNumber(u)
    THEN [qv |-> Float(q), uv |-> Float(u)]
    ELSE [qv |-> 0, uv |-> 0]

\* The per-item rate of a CSV item (lines 588-593).
CsvTax(segs) ==
    IF Len(segs) >= 4 /\ segs[4] # "" /\ IsRate(segs[4])
    THEN <<FloatRate(segs[4])>> ELSE <<>>

\* The item loop of generate_batch (lines 580-599) from part k on.  A part
\* is the sequence of its stripped '|' fields, the first one a text; the
\* empty part is <<>>.
RECURSIVE CsvItems(_, _)
CsvItems(parts, k) ==
    IF k > Len(parts) THEN <<>>
    ELSE IF Len(parts[k]) < 3 THEN CsvItems(parts, k + 1)
    ELSE LET segs == parts[k]
             n    == CsvNumbers(segs[2], segs[3])
         IN  <<[desc |-> segs[1], qty |-> n.qv, unit |-> n.uv,
                taxv |-> CsvTax(segs)]>> \o CsvItems(parts, k + 1)

\* The text drawn for an invoice number (one glyph per number).
NoText(no) == IF no = "" THEN <<>> ELSE <<no>>

\* The data dict of lines 542-559 and 601-618.
MakeData(invoice_no, tax_rate, items) ==
    [title |-> <<"INVOICE">>,
     seller_name |-> <<>>, seller_address |-> <<>>,
     seller_email |-> <<>>, seller_phone |-> <<>>,
     buyer_name |-> <<>>, buyer_address |-> <<>>,
     buyer_email |-> <<>>, buyer_phone |-> <<>>,
     invoice_no |-> NoText(invoice_no), date |-> <<>>, due_date |-> <<>>,
     currency |-> "JPY", tax_rate |-> tax_rate, note |-> <<>>,
     items |-> items]

\* datetime.now().strftime('%Y%m%d%H%M%S'): a text of the clock's second.
TimeStamp(t) == ToString(t)

\* invoice_no or datetime.now().strftime(...)  (lines 562 and 620), for the
\* record at position k.
OutputNameNumbered(invoice_no, t, k) ==
    <<IF invoice_no # "" THEN invoice_no ELSE TimeStamp(t), ToString(k)>>

OutputName(invoice_no, t, k) ==
    <<IF invoice_no # "" THEN invoice_no ELSE TimeStamp(t)>>

\* generate_invoice_pdf(data) is entered.
CallRender(d) ==
    /\ data' = d
    /\ pc' = "start"
    /\ canvas' = <<>>
    /\ pages' = 0
    /\ row_y' = 0
    /\ i' = 1
    /\ subtotal_by_rate' = [r \in {} |-> 0]
    /\ rate_order' = <<>>
    /\ total_sub' = 0
    /\ total_tax' = 0
    /\ note_lines' = <<>>
    /\ UNCHANGED logo

\* generate_single up to the call of the renderer (lines 524-561).
GenerateSingle ==
    /\ bpc = "request"
    /\ request.kind = "single"
    /\ CallRender(MakeData(request.invoice_no, request.tax_rate,
                           FormItems(request.rows, 1)))
    /\ bpc' = "single_render"
    /\ UNCHANGED <<request, row_i, zip, now, response, wvars>>

\* Lines 562-563: the PDF is sent under its file name.
SingleSend ==
    /\ bpc = "single_render"
    /\ pc = "done"
    /\ response' = [status |-> "pdf",
                    files  |-> <<[name |-> OutputName(request.invoice_no, now, 1),
                                  pdf  |-> canvas, row |-> 1]>>]
    /\ bpc' = "done"
    /\ UNCHANGED <<request, row_i, zip, now, wvars, rvars>>

\* generate_batch up to the row loop (lines 566-576).
BatchOpen ==
    /\ bpc = "request"
    /\ request.kind = "batch"
    /\ IF request.file
       THEN /\ bpc' = "rows"
            /\ response' = response
       ELSE /\ bpc' = "done"
            /\ response' = [status |-> "redirect", files |-> <<>>]
    /\ zip' = <<>>
    /\ row_i' = 1
    /\ UNCHANGED <<request, now, wvars, rvars>>

\* One row of the CSV up to the call of the renderer (lines 577-619).
BatchRow ==
    /\ bpc = "rows"
    /\ row_i <= Len(request.rows)
    /\ LET row == request.rows[row_i]
       IN  CallRender(MakeData(row.invoice_no, row.tax_rate,
                               CsvItems(row.items, 1)))
    /\ bpc' = "batch_render"
    /\ UNCHANGED <<request, row_i, zip, now, response, wvars>>

\* Lines 620-621: the PDF of the row is written to the archive.
BatchStore ==
    /\ bpc = "batch_render"
    /\ pc = "done"
    /\ zip' = Append(zip,
                [name |-> OutputName(request.rows[row_i].invoice_no, now, row_i),
                 pdf  |-> canvas, row |-> row_i])
    /\ row_i' = row_i + 1
    /\ bpc' = "rows"
    /\ pc' = "idle"
    /\ UNCHANGED <<request, now, response, data, logo, canvas, pages, row_y, i,
                   subtotal_by_rate, rate_order, total_sub, total_tax,
                   note_lines, wvars>>

\* Lines 623-624: after the last row the archive is sent.
BatchSend ==
    /\ bpc = "rows"
    /\ row_i > Len(request.rows)
    /\ response' = [status |-> "zip", files |-> zip]
    /\ bpc' = "done"
    /\ UNCHANGED <<request, row_i, zip, now, wvars, rvars>>

\* An exception of the renderer is caught neither by generate_single nor by
\* generate_batch (lines 561 and 619): the request fails and the archive
\* built so far is dropped with it.
RenderRaises ==
    /\ bpc \in {"single_render", "batch_render"}
    /\ pc = "failed"
    /\ response' = [status |-> "error", files |-> <<>>]
    /\ bpc' = "error"
    /\ UNCHANGED <<request, row_i, zip, now, wvars, rvars>>

\* A second of the clock passes before datetime.now() is read (lines 562
\* and 620); the clock is read nowhere else.
Tick ==
    /\ bpc \in {"single_render", "batch_render"}
    /\ pc = "done"
    /\ now < MaxClock
    /\ now' = now + 1
    /\ UNCHANGED <<bpc, request, row_i, zip, response, wvars, rvars>>

\* ---------------------------------------------------------- the requests
FieldTexts == {"", "2", "-1", "abc"}

FormRows == [desc : {<<>>, <<"a">>}, qty : FieldTexts, unit : FieldTexts]

SingleRequests ==
    [kind : {"single"}, invoice_no : {"", "A"}, tax_rate : {"0.1", "abc"},
     rows : UNION {[1..n -> FormRows] : n \in 0..MaxFormRows}]

\* The items column of a CSV row, split at ';' and '|'.
RawItemLists ==
    { <<>>,
      << <<<<"a">>, "2", "100">> >>,
      << <<<<"a">>, "-1", "100", "0">>, <<<<"kana">>, "abc", "100", "x">> >>,
      << <<<<"a">>, "2">>, <<>>, <<<<"a">>, "", "50", "0.08">> >> }

CsvRows == [invoice_no : {"", "A"}, tax_rate : {"0.1", "abc"},
            items : RawItemLists]

BatchRequests ==
    [kind : {"batch"}, file : {TRUE},
     rows : UNION {[1..n -> CsvRows] : n \in 0..MaxRows}]
    \cup {[kind |-> "batch", file |-> FALSE, rows |-> <<>>]}

InitRequests ==
    /\ bpc = "request"
    /\ request \in SingleRequests \cup BatchRequests
    /\ row_i = 1
    /\ zip = <<>>
    /\ now = 0
    /\ response = [status |-> "none", files |-> <<>>]
    /\ IdleRender
    /\ logo \in BOOLEAN
    /\ IdleWrap

NextRequests ==
    \/ GenerateSingle
    \/ SingleSend
    \/ BatchOpen
    \/ BatchRow
    \/ BatchStore
    \/ BatchSend
    \/ RenderRaises
    \/ Tick
    \/ Header
    \/ ItemRow
    \/ TotalsBegin
    \/ Bucket
    \/ TotalsEnd
    \/ NoteLine
    \/ Finish

SpecRequests == InitRequests /\ [][NextRequests]_vars

\* ------------------------------------------- specification of the helpers
WrapGlyphs == {"a", "kana", "wide"}
WrapWidths == {8 * pt, 12 * pt, 30 * pt}
WrapSize   == text_font_size
WrapLineH  == 12 * pt
WrapY0     == 100 * pt

Texts(n) == UNION {[1..m -> WrapGlyphs] : m \in 0..n}

RECURSIVE Concat(_, _)
Concat(ls, k) == IF k > Len(ls) THEN <<>> ELSE ls[k] \o Concat(ls, k + 1)

InitWrap ==
    /\ wpc = "input"
    /\ wtext \in Texts(MaxLen)
    /\ wwidth \in WrapWidths
    /\ wlines = <<>>
    /\ wdrawn = <<>>
    /\ IdleRender
    /\ logo = FALSE
    /\ IdleRequests

CallWrapLines ==
    /\ wpc = "input"
    /\ wlines' = wrap_lines(wtext, WrapSize, wwidth)
    /\ wpc' = "wrapped"
    /\ UNCHANGED <<wtext, wwidth, wdrawn, rvars, bvars>>

CallDrawWrapped ==
    /\ wpc = "wrapped"
    /\ wdrawn' = draw_wrapped(wtext, WrapY0, WrapSize, wwidth, WrapLineH).drawn
    /\ wpc' = "drawn"
    /\ UNCHANGED <<wtext, wwidth, wlines, rvars, bvars>>

NextWrap == CallWrapLines \/ CallDrawWrapped

SpecWrap == InitWrap /\ [][NextWrap]_vars

\* ------------------------------------------------------------------ C2
\* C2: for every text and width > 0, wrap_lines returns a non-empty sequence
\* of lines whose concatenation in order is the text; for the empty text the
\* result is exactly the one line "".
C2_WrapPreservesText ==
    wpc # "input" =>
        /\ Len(wlines) >= 1
        /\ Concat(wlines, 1) = wtext
        /\ (wtext = <<>> => wlines = << <<>> >>)

C2_Witness ==
    /\ wpc # "input"
    /\ Len(wlines) >= 3
    /\ Len(wtext) = MaxLen

\* ------------------------------------------------------------------ C3
\* C3: every line returned by wrap_lines is at most max_width wide, except a
\* line that is a single glyph wider than max_width.
C3_LinesFit ==
    wpc # "input" =>
        \A k \in 1..Len(wlines) :
            \/ stringWidth(wlines[k], WrapSize) <= wwidth
            \/ Len(wlines[k]) = 1

C3_Witness ==
    /\ wpc # "input"
    /\ \E k \in 1..Len(wlines) :
          Len(wlines[k]) = 1 /\ stringWidth(wlines[k], WrapSize) > wwidth
    /\ \E k \in 1..Len(wlines) : Len(wlines[k]) >= 2

\* ------------------------------------------------------------------ C4
\* C4: a text that is one glyph wider than max_width is wrapped into exactly
\* one line, the glyph itself, by wrap_lines and by draw_wrapped.
C4_SingleWideGlyphOneLine ==
    (/\ Len(wtext) = 1
     /\ stringWidth(wtext, WrapSize) > wwidth) =>
        /\ (wpc # "input" => wlines = <<wtext>>)
        /\ (wpc = "drawn" =>
               /\ Len(wdrawn) = 1
               /\ wdrawn[1].txt = wtext)

\* ------------------------------------------------------------------ C8
\* The render of a CSV row raises only at float() of its tax rate.
RowRenders(row) == row.tax_rate = "" \/ IsRate(row.tax_rate)

\* C8: in a batch, the failure of one record's render leaves every other
\* record, before and after it, with its own document in the output.
C8_FailureIsolated ==
    (request.kind = "batch" /\ bpc \in {"done", "error"}) =>
        \A k \in 1..Len(request.rows) :
            RowRenders(request.rows[k]) =>
                \E f \in 1..Len(response.files) : response.files[f].row = k

\* ------------------------------------------------------------------ C9
\* C9 as stated: every item handed to the renderer has a quantity and a unit
\* price that are non-negative numbers, and no quantity or unit price makes
\* the render fail.
C9_NonNegativeNumbers ==
    bpc \in {"single_render", "batch_render"} =>
        /\ \A k \in 1..Len(data.items) :
              data.items[k].qty >= 0 /\ data.items[k].unit >= 0
        /\ (pc = "failed" => ~(data.tax_rate = "" \/ IsRate(data.tax_rate)))

\* The raw items the intake keeps: form rows with a description, CSV parts
\* with three fields at least; and the two number fields of a raw item.
KeptRaw ==
    IF request.kind = "single"
    THEN SelectSeq(request.rows, LAMBDA r : r.desc # <<>>)
    ELSE SelectSeq(request.rows[row_i].items, LAMBDA p : Len(p) >= 3)
RawQty(raw)  == IF request.kind = "single" THEN raw.qty ELSE raw[2]
RawUnit(raw) == IF request.kind = "single" THEN raw.unit ELSE raw[3]
Parses(t) == IsNumber(t) \/ (request.kind = "single" /\ t = "")
ValueOf(t) == IF t = "" THEN 0 ELSE Float(t)

\* C9 (amended): every item handed to the renderer carries the float() values
\* of its quantity and unit price fields, negative values included, when both
\* fields parse (an empty form field counts as 0), and 0.0 for both when one
\* of them does not; the render then fails only for the invoice's tax rate.
C9_IntakeNumbers ==
    bpc \in {"single_render", "batch_render"} =>
        /\ Len(data.items) = Len(KeptRaw)
        /\ \A k \in 1..Len(data.items) :
              LET q == RawQty(KeptRaw[k])
                  u == RawUnit(KeptRaw[k])
              IN  IF Parses(q) /\ Parses(u)
                  THEN /\ data.items[k].qty = ValueOf(q)
                       /\ data.items[k].unit = ValueOf(u)
                  ELSE /\ data.items[k].qty = 0
                       /\ data.items[k].unit = 0
        /\ (pc = "failed" => ~(data.tax_rate = "" \/ IsRate(data.tax_rate)))

C9_Witness ==
    /\ bpc = "batch_render"
    /\ pc = "done"
    /\ Len(data.items) = 2
    /\ data.items[1].qty = -1
    /\ RawQty(KeptRaw[2]) = "abc"
    /\ data.items[2].qty = 0
    /\ data.items[2].unit = 0

\* ----------------------------------------------------------------- C10
\* C10: the archive of a batch holds one document per record, in record
\* order, and no two of them under the same name, also when records have no
\* invoice number or share one.
C10_DistinctOutputs ==
    (request.kind = "batch" /\ response.status = "zip") =>
        /\ Len(response.files) = Len(request.rows)
        /\ \A k \in 1..Len(response.files) : response.files[k].row = k
        /\ \A j, k \in 1..Len(response.files) :
              j # k => response.files[j].name # response.files[k].name

====
